---------------------------- MODULE Spec2Model ----------------------------
(***************************************************************************)
(* A model of get_employment.py: the BLS series-identifier mapping         *)
(* (fips_to_id, id_to_fips), the response assembler                        *)
(* (download_employment_data) and the chunked fetch loop                   *)
(* (download_all_employment_data).                                         *)
(*                                                                         *)
(* Python str values are TLA+ strings; TLC evaluates Len, SubSeq, Head,    *)
(* Tail and \o on them.  A Python dict is a sequence of <<key, value>>     *)
(* pairs in insertion order.  A pandas DataFrame is a record of its row    *)
(* labels, its column labels and its cells, row by row.                    *)
(***************************************************************************)
EXTENDS Integers, Sequences, FiniteSets, TLC

VARIABLES
    STATES,        \* us.states.STATES: the reference list of regions
    arg,           \* identifier mapping: the argument of the call
    ret,           \* identifier mapping: the value returned
    called,        \* identifier mapping: which function produced ret
    start_year,    \* download_all_employment_data: argument
    end_year,      \* download_all_employment_data: argument
    pc,            \* download_all_employment_data: position in the loops
    fips_index,
    year_index,
    request_fips,
    year_frame,
    fips_frames,
    result,        \* download_all_employment_data: the value returned
    request,       \* last call of download_employment_data: its arguments
    response,      \* last call of download_employment_data: json_data
    year_chunk,    \* last call of download_employment_data: its outcome
    calls,         \* every request body POSTed so far, with its response
    groups         \* request_fips of every pass of the outer loop so far

vars == <<STATES, arg, ret, called, start_year, end_year, pc, fips_index,
          year_index, request_fips, year_frame, fips_frames, result,
          request, response, year_chunk, calls, groups>>

idVars == <<arg, ret, called>>
runVars == <<start_year, end_year, pc, fips_index, year_index, request_fips,
             year_frame, fips_frames, result, calls, groups>>
callVars == <<request, response, year_chunk>>

-----------------------------------------------------------------------------
(* Bounds of the model and constants of the program *)

\* regions beyond a multiple of fips_interval in the reference list
MaxExtraRegions == 2
\* whole year windows in the requested range
MaxFullWindows == 2
\* years beyond a multiple of year_interval in the requested range
MaxExtraYears == 7

fips_interval == 50
year_interval == 20

-----------------------------------------------------------------------------
(* Python values *)

None == [kind |-> "None"]

\* a str where None is also possible
Str(s) == [kind |-> "str", val |-> s]

\* an exception leaving the function
Raise(e) == [kind |-> "Raise", exc |-> e]

Min(a, b) == IF a < b THEN a ELSE b

CharAt(s, i) == SubSeq(s, i, i)

Digits == {"0", "1", "2", "3", "4", "5", "6", "7", "8", "9"}

DigitChar(d) == CharAt("0123456789", d + 1)

\* str(n) of an int n >= 0
RECURSIVE IntToStr(_)
IntToStr(n) ==
    IF n < 10 THEN DigitChar(n)
    ELSE IntToStr(n \div 10) \o DigitChar(n % 10)

\* c * k
RECURSIVE Repeat(_, _)
Repeat(c, k) == IF k <= 0 THEN "" ELSE c \o Repeat(c, k - 1)

\* s.zfill(width): zeros go after a leading sign
zfill(s, width) ==
    IF Len(s) >= width THEN s
    ELSE IF Len(s) > 0 /\ Head(s) \in {"+", "-"}
         THEN Head(s) \o Repeat("0", width - Len(s)) \o Tail(s)
         ELSE Repeat("0", width - Len(s)) \o s

\* s.replace(old, new) for a one-character old
RECURSIVE replace(_, _, _)
replace(s, old, new) ==
    IF Len(s) = 0 THEN ""
    ELSE (IF Head(s) = old THEN new ELSE Head(s)) \o replace(Tail(s), old, new)

\* sep.join(parts)
RECURSIVE join(_, _)
join(sep, parts) ==
    IF Len(parts) = 0 THEN ""
    ELSE IF Len(parts) = 1 THEN parts[1]
    ELSE parts[1] \o sep \o join(sep, Tail(parts))

\* seq[a:b] for 0 <= a, 0 <= b
slice(seq, a, b) ==
    LET hi == Min(b, Len(seq))
    IN  IF a >= hi THEN <<>> ELSE SubSeq(seq, a + 1, hi)

\* range(a, b) as a list
range(a, b) == IF b <= a THEN <<>> ELSE [i \in 1..(b - a) |-> a + i - 1]

-----------------------------------------------------------------------------
(* Python dict: a sequence of <<key, value>> pairs, keys unique *)

DictHas(d, k) == \E i \in DOMAIN d : d[i][1] = k

DictGet(d, k) == d[CHOOSE i \in DOMAIN d : d[i][1] = k][2]

DictSet(d, k, v) ==
    IF DictHas(d, k)
    THEN [i \in DOMAIN d |-> IF d[i][1] = k THEN <<k, v>> ELSE d[i]]
    ELSE Append(d, <<k, v>>)

DictKeys(d) == [i \in DOMAIN d |-> d[i][1]]

-----------------------------------------------------------------------------
(* Identifier mapping *)

SeriesPrefix == "SMS"
SeriesSuffix == "000000000000001"

fips_to_id(st) == SeriesPrefix \o zfill(st, 2) \o SeriesSuffix

Lit(c) == [kind |-> "lit", c |-> c]
DigitClass == [kind |-> "class", c |-> "0-9"]

LitSeq(s) == [i \in 1..Len(s) |-> Lit(CharAt(s, i))]

\* the pattern "SMS([0-9]{2})000000000000001", one token per character
Pattern == LitSeq(SeriesPrefix) \o <<DigitClass, DigitClass>> \o LitSeq(SeriesSuffix)

\* the span of the pattern's group 1
GroupStart == Len(SeriesPrefix) + 1
GroupEnd == Len(SeriesPrefix) + 2

Accepts(tok, ch) == IF tok.kind = "lit" THEN ch = tok.c ELSE ch \in Digits

\* re.match(Pattern, string): the pattern must match at the start of the
\* string; what follows the match is not looked at
re_match(string) ==
    IF /\ Len(string) >= Len(Pattern)
       /\ \A i \in 1..Len(Pattern) : Accepts(Pattern[i], CharAt(string, i))
    THEN [kind |-> "Match", group1 |-> SubSeq(string, GroupStart, GroupEnd)]
    ELSE None

id_to_fips(series_id) ==
    LET match == re_match(series_id)
    IN  IF match # None THEN Str(match.group1) ELSE None

-----------------------------------------------------------------------------
(* Reference data: the us package *)

Letter(i) == CharAt("ABCDEFGHIJKLMNOPQRSTUVWXYZ", (i % 26) + 1)

\* the i-th region of the reference list: a 2-digit code and an abbreviation
State(i) ==
    [kind |-> "State",
     fips |-> zfill(IntToStr(i), 2),
     abbr |-> Letter(i \div 26) \o Letter(i)]

FirstStates(n) == [i \in 1..n |-> State(i)]

\* us.states.lookup(val): the State with that code or None; a val that is
\* not a str makes its pattern match raise
lookup(val) ==
    IF val = None THEN Raise("TypeError")
    ELSE LET hits == {i \in DOMAIN STATES : STATES[i].fips = val.val}
         IN  IF hits = {} THEN None ELSE STATES[CHOOSE i \in hits : TRUE]

-----------------------------------------------------------------------------
(* pandas *)

NaN == "NaN"

DataFrame(index, columns, data) ==
    [kind |-> "DataFrame", index |-> index, columns |-> columns, data |-> data]

IsFrame(v) == v.kind = "DataFrame"

InSeq(x, seq) == \E i \in DOMAIN seq : seq[i] = x

PosIn(x, seq) == CHOOSE i \in DOMAIN seq : seq[i] = x

Count(x, seq) == Cardinality({i \in DOMAIN seq : seq[i] = x})

\* acc followed by the elements of seq that are not yet in it
RECURSIVE AppendNew(_, _)
AppendNew(acc, seq) ==
    IF Len(seq) = 0 THEN acc
    ELSE AppendNew(IF InSeq(Head(seq), acc) THEN acc ELSE Append(acc, Head(seq)),
                   Tail(seq))

\* the union of the keys of the dicts that are the values of rows
RECURSIVE InnerKeys(_, _)
InnerKeys(acc, rows) ==
    IF Len(rows) = 0 THEN acc
    ELSE InnerKeys(AppendNew(acc, DictKeys(rows[1][2])), Tail(rows))

\* pd.DataFrame(rows).transpose() of a dict of dicts: one row per outer key,
\* one column per inner key, NaN where a row's dict lacks the key
DataFrameTranspose(rows) ==
    LET columns == InnerKeys(<<>>, rows)
    IN  DataFrame(DictKeys(rows), columns,
                  [i \in DOMAIN rows |->
                      [j \in DOMAIN columns |->
                          IF DictHas(rows[i][2], columns[j])
                          THEN DictGet(rows[i][2], columns[j])
                          ELSE NaN]])

\* left.join(right, rsuffix=rsuffix): a left join on the row labels. A column
\* label the two frames share keeps its name on the left and takes the
\* suffix on the right; a right operand that is no frame raises
DataFrameJoin(left, right, rsuffix) ==
    IF ~IsFrame(right) THEN Raise("TypeError")
    ELSE LET rcolumns == [j \in DOMAIN right.columns |->
                             IF InSeq(right.columns[j], left.columns)
                             THEN right.columns[j] \o rsuffix
                             ELSE right.columns[j]]
             rrow(label) ==
                 IF InSeq(label, right.index)
                 THEN right.data[PosIn(label, right.index)]
                 ELSE [j \in DOMAIN right.columns |-> NaN]
         IN  DataFrame(left.index, left.columns \o rcolumns,
                       [i \in DOMAIN left.index |->
                           left.data[i] \o rrow(left.index[i])])

\* the objects of objs that are not None
RECURSIVE DropNone(_)
DropNone(objs) ==
    IF Len(objs) = 0 THEN <<>>
    ELSE IF Head(objs) = None THEN DropNone(Tail(objs))
    ELSE <<Head(objs)>> \o DropNone(Tail(objs))

RECURSIVE UnionColumns(_, _)
UnionColumns(acc, frames) ==
    IF Len(frames) = 0 THEN acc
    ELSE UnionColumns(AppendNew(acc, frames[1].columns), Tail(frames))

Reindex(frame, columns) ==
    [i \in DOMAIN frame.index |->
        [j \in DOMAIN columns |->
            IF InSeq(columns[j], frame.columns)
            THEN frame.data[i][PosIn(columns[j], frame.columns)]
            ELSE NaN]]

RECURSIVE StackRows(_, _)
StackRows(frames, columns) ==
    IF Len(frames) = 0 THEN <<>>
    ELSE Reindex(frames[1], columns) \o StackRows(Tail(frames), columns)

RECURSIVE StackIndex(_)
StackIndex(frames) ==
    IF Len(frames) = 0 THEN <<>> ELSE frames[1].index \o StackIndex(Tail(frames))

\* pd.concat(objs): None objects are dropped, and it raises when nothing is
\* left; one frame is returned as it is; several are stacked row-wise over
\* the union of their columns, which needs unique column labels
concat(objs) ==
    LET frames == DropNone(objs)
        columns == UnionColumns(<<>>, frames)
    IN  IF Len(frames) = 0 THEN Raise("ValueError")
        ELSE IF Len(frames) = 1 THEN frames[1]
        ELSE IF \E k \in DOMAIN frames :
                    \E c \in DOMAIN frames[k].columns :
                        Count(frames[k].columns[c], frames[k].columns) > 1
        THEN Raise("InvalidIndexError")
        ELSE DataFrame(StackIndex(frames), columns, StackRows(frames, columns))

-----------------------------------------------------------------------------
(* download_employment_data *)

\* the JSON body POSTed (the registration key left out)
RequestData(fips_list, start, end) ==
    [seriesid |-> [i \in DOMAIN fips_list |-> fips_to_id(fips_list[i])],
     startyear |-> IntToStr(start),
     endyear |-> IntToStr(end)]

\* a record of one call: its arguments, the body POSTed, the answer, and
\* the pass of the outer loop that made it (0 for a call on its own)
Call(fips_list, start, end, json_data, group) ==
    [request |-> [fips_list |-> fips_list, start_year |-> start, end_year |-> end],
     data |-> RequestData(fips_list, start, end),
     response |-> json_data,
     group |-> group]

Ok(rows) == [kind |-> "ok", rows |-> rows]

\* the loop body with the period taken as it comes, its "M" left in
ItemBodyKeepsPrefix(rows, series_id, item) ==
    LET fips == id_to_fips(series_id)
        state == lookup(fips)
    IN  IF state.kind = "Raise" THEN state
        ELSE IF state = None THEN Raise("AttributeError")
        ELSE LET year_period == join("-", <<item.year, item.period>>)
                 rows1 == IF ~DictHas(rows, series_id)
                          THEN DictSet(rows, series_id,
                                       <<<<"state", state.abbr>>, <<"fips", fips.val>>>>)
                          ELSE rows
             IN  Ok(DictSet(rows1, series_id,
                            DictSet(DictGet(rows1, series_id), year_period,
                                    item.value)))

\* the body of the loop over series['data']
ItemBody(rows, series_id, item) ==
    LET fips == id_to_fips(series_id)
        state == lookup(fips)
    IN  IF state.kind = "Raise" THEN state
        ELSE IF state = None THEN Raise("AttributeError")
        ELSE LET st_abbr == state.abbr
                 year_period == join("-", <<item.year, replace(item.period, "M", "")>>)
                 value == item.value
                 rows1 == IF ~DictHas(rows, series_id)
                          THEN DictSet(rows, series_id,
                                       <<<<"state", st_abbr>>, <<"fips", fips.val>>>>)
                          ELSE rows
             IN  Ok(DictSet(rows1, series_id,
                            DictSet(DictGet(rows1, series_id), year_period, value)))

RECURSIVE ItemsLoop(_, _, _)
ItemsLoop(rows, series_id, items) ==
    IF Len(items) = 0 THEN Ok(rows)
    ELSE LET r == ItemBody(rows, series_id, Head(items))
         IN  IF r.kind = "Raise" THEN r
             ELSE ItemsLoop(r.rows, series_id, Tail(items))

RECURSIVE SeriesLoop(_, _)
SeriesLoop(rows, series_list) ==
    IF Len(series_list) = 0 THEN Ok(rows)
    ELSE LET r == ItemsLoop(rows, Head(series_list).seriesID, Head(series_list).data)
         IN  IF r.kind = "Raise" THEN r
             ELSE SeriesLoop(r.rows, Tail(series_list))

\* what the function does with the decoded response json_data: None, a
\* frame, or an exception
download_employment_data(json_data) ==
    IF "series" \notin DOMAIN json_data.Results THEN None
    ELSE LET r == SeriesLoop(<<>>, json_data.Results.series)
         IN  IF r.kind = "Raise" THEN r ELSE DataFrameTranspose(r.rows)

-----------------------------------------------------------------------------
(* The remote service: what a call can be answered with *)

Observation(year, period, value) ==
    [year |-> year, period |-> period, value |-> value]

Series(series_id, data) == [seriesID |-> series_id, data |-> data]

\* a response whose results object has no series list
NoSeries == [Results |-> <<>>]

WithSeries(series_list) == [Results |-> [series |-> series_list]]

\* an identifier that is not of the fixed format
MalformedId == "SMS0X000000000000001"

-----------------------------------------------------------------------------
(* Identifier mapping on its own: one call, or fips_to_id and then        *)
(* id_to_fips on its result                                               *)

CodeInputs == {"09", "36", "06", "00", "99", "9", "", "123", "-1", "ab", "0a"}

SeriesIdInputs ==
    {p \o m \o s \o t :
        p \in {"SMS", "SMX", "sms", "MS", ""},
        m \in {"09", "36", "6", "123", "0a", "ab"},
        s \in {SeriesSuffix, "00000000000001", "000000000000002", "000000000000000"},
        t \in {"", "X", "1", "00"}}

IdleRun ==
    /\ start_year = 0
    /\ end_year = 0
    /\ fips_index = 0
    /\ year_index = 0
    /\ request_fips = <<>>
    /\ year_frame = None
    /\ fips_frames = <<>>
    /\ result = None
    /\ calls = <<>>
    /\ groups = <<>>

IdleCall ==
    /\ request = None
    /\ response = None
    /\ year_chunk = None

IdleId ==
    /\ arg = ""
    /\ ret = None
    /\ called = ""

InitId ==
    /\ STATES = <<>>
    /\ arg \in CodeInputs \cup SeriesIdInputs
    /\ ret = None
    /\ called = ""
    /\ pc = "idle"
    /\ IdleRun
    /\ IdleCall

Call_fips_to_id ==
    /\ called = ""
    /\ arg \in CodeInputs
    /\ ret' = Str(fips_to_id(arg))
    /\ called' = "fips_to_id"
    /\ UNCHANGED <<STATES, arg, runVars, callVars>>

Call_id_to_fips ==
    /\ called = ""
    /\ ret' = id_to_fips(arg)
    /\ called' = "id_to_fips"
    /\ UNCHANGED <<STATES, arg, runVars, callVars>>

RoundTrip ==
    /\ called = "fips_to_id"
    /\ ret' = id_to_fips(ret.val)
    /\ called' = "round_trip"
    /\ UNCHANGED <<STATES, arg, runVars, callVars>>

NextId == Call_fips_to_id \/ Call_id_to_fips \/ RoundTrip

SpecId == InitId /\ [][NextId]_vars

-----------------------------------------------------------------------------
(* download_employment_data on its own: one call, answered with one of a   *)
(* bounded set of responses                                                *)

AssembleStates == 3

AssembleIds == {fips_to_id("01"), fips_to_id("02"), fips_to_id("99"), MalformedId}

AssembleData ==
    {<<>>,
     <<Observation("2008", "M01", "1650.3")>>,
     <<Observation("2008", "M01", "1702.9"), Observation("2008", "M02", "1703.4")>>,
     <<Observation("2008", "M12", "1688.0"), Observation("2009", "M01", "1690.5")>>,
     <<Observation("2009", "M13", "1695.1")>>}

\* series lists of at most two series, no identifier twice
AssembleSeriesLists ==
    {<<>>}
    \cup {<<Series(a, d)>> : a \in AssembleIds, d \in AssembleData}
    \cup {sl \in {<<Series(a, d), Series(b, e)>> :
                     a \in AssembleIds, b \in AssembleIds,
                     d \in AssembleData, e \in AssembleData} :
            sl[1].seriesID # sl[2].seriesID}

AssembleResponses == {NoSeries} \cup {WithSeries(sl) : sl \in AssembleSeriesLists}

Request(fips_list, start, end) ==
    [fips_list |-> fips_list, start_year |-> start, end_year |-> end]

InitAssemble ==
    /\ STATES = FirstStates(AssembleStates)
    /\ \E k \in 1..2 :
          request = Request([i \in 1..k |-> STATES[i].fips], 2008, 2009)
    /\ response \in AssembleResponses
    /\ year_chunk = None
    /\ pc = "call"
    /\ IdleRun
    /\ IdleId

Download ==
    /\ pc = "call"
    /\ year_chunk' = download_employment_data(response)
    /\ calls' = Append(calls,
                       Call(request.fips_list, request.start_year,
                            request.end_year, response, 0))
    /\ pc' = "returned"
    /\ UNCHANGED <<STATES, idVars, start_year, end_year, fips_index, year_index,
                   request_fips, year_frame, fips_frames, result, groups,
                   request, response>>

NextAssemble == Download

SpecAssemble == InitAssemble /\ [][NextAssemble]_vars

-----------------------------------------------------------------------------
(* download_all_employment_data *)

fips_codes == [i \in DOMAIN STATES |-> STATES[i].fips]

years == range(start_year, end_year)

\* fips_codes[fips_index:min(fips_index+fips_interval, len(fips_codes) - 1)]
RequestFips(codes, index) ==
    slice(codes, index, Min(index + fips_interval, Len(codes) - 1))

\* years[year_index]; Python indexes from 0
RequestStartYear(ys, index) == ys[index + 1]

\* the end of a window taken one index too far
RequestEndYearOffByOne(ys, index) == ys[Min(Len(ys) - 1, index + year_interval) + 1]

\* years[min(len(years) - 1, year_index + year_interval - 1)]
RequestEndYear(ys, index) == ys[Min(Len(ys) - 1, index + year_interval - 1) + 1]

\* year_frame after the if/else on it: the chunk itself the first time (and
\* as long as year_frame is None), else the join of the two
MergeChunk(frame, chunk) ==
    IF frame = None THEN chunk ELSE DataFrameJoin(frame, chunk, "_chk")

\* a stand-in for the number-as-string the service reports
Value(fips, year) == IntToStr(year) \o "." \o fips

\* the answers considered for one call: no series list; a series list with
\* no observation in it; data for the first region asked for, for the first
\* two, for the second alone; a series with a malformed identifier.
\* Observations lie in the window asked for, at most one per region and
\* period
Responses(fips_list, start, end) ==
    LET first(f) == Series(fips_to_id(f),
                           <<Observation(IntToStr(start), "M01", Value(f, start)),
                             Observation(IntToStr(end), "M12", Value(f, end))>>)
        second(f) == Series(fips_to_id(f),
                            <<Observation(IntToStr(start), "M01", Value(f, start))>>)
    IN  {NoSeries,
         WithSeries(<<Series(MalformedId,
                             <<Observation(IntToStr(start), "M01", "0.0")>>)>>)}
        \cup (IF Len(fips_list) >= 1
              THEN {WithSeries(<<Series(fips_to_id(fips_list[1]), <<>>)>>),
                    WithSeries(<<first(fips_list[1])>>)}
              ELSE {WithSeries(<<>>)})
        \cup (IF Len(fips_list) >= 2
              THEN {WithSeries(<<first(fips_list[1]), second(fips_list[2])>>),
                    WithSeries(<<second(fips_list[2])>>)}
              ELSE {})

\* the lengths of the reference list considered
RegionCounts ==
    {q * fips_interval + d : q \in 0..1, d \in 0..MaxExtraRegions} \ {0}

StartYears == {1991}

\* the lengths of the year range considered
YearSpans ==
    {q * year_interval + d : q \in 0..MaxFullWindows, d \in 0..MaxExtraYears}

Init ==
    /\ \E n \in RegionCounts : STATES = FirstStates(n)
    /\ start_year \in StartYears
    /\ \E span \in YearSpans : end_year = start_year + span
    /\ pc = "outer"
    /\ fips_index = 0
    /\ year_index = 0
    /\ request_fips = <<>>
    /\ year_frame = None
    /\ fips_frames = <<>>
    /\ result = None
    /\ calls = <<>>
    /\ groups = <<>>
    /\ IdleCall
    /\ IdleId

\* while fips_index < len(fips_codes): request_fips = ...; year_frame = None
BeginGroup ==
    /\ pc = "outer"
    /\ fips_index < Len(fips_codes)
    /\ request_fips' = RequestFips(fips_codes, fips_index)
    /\ groups' = Append(groups, request_fips')
    /\ year_frame' = None
    /\ pc' = "inner"
    /\ UNCHANGED <<STATES, idVars, callVars, start_year, end_year, fips_index,
                   year_index, fips_frames, result, calls>>

\* one pass of while year_index < len(years): the call and the merge
YearStep ==
    /\ pc = "inner"
    /\ year_index < Len(years)
    /\ LET request_start_year == RequestStartYear(years, year_index)
           request_end_year == RequestEndYear(years, year_index)
       IN  \E json_data \in Responses(request_fips, request_start_year,
                                      request_end_year) :
             LET chunk == download_employment_data(json_data)
                 merged == MergeChunk(year_frame, chunk)
             IN  /\ year_index' = year_index + year_interval
                 /\ request' = Request(request_fips, request_start_year,
                                       request_end_year)
                 /\ response' = json_data
                 /\ year_chunk' = chunk
                 /\ calls' = Append(calls,
                                    Call(request_fips, request_start_year,
                                         request_end_year, json_data, Len(groups)))
                 /\ IF chunk.kind = "Raise"
                    THEN /\ pc' = "raised"
                         /\ result' = chunk
                         /\ year_frame' = year_frame
                    ELSE IF merged.kind = "Raise"
                    THEN /\ pc' = "raised"
                         /\ result' = merged
                         /\ year_frame' = year_frame
                    ELSE /\ pc' = pc
                         /\ result' = result
                         /\ year_frame' = merged
    /\ UNCHANGED <<STATES, idVars, start_year, end_year, fips_index,
                   request_fips, fips_frames, groups>>

\* fips_frames.append(year_frame); fips_index += fips_interval
EndGroup ==
    /\ pc = "inner"
    /\ year_index >= Len(years)
    /\ fips_frames' = Append(fips_frames, year_frame)
    /\ fips_index' = fips_index + fips_interval
    /\ pc' = "outer"
    /\ UNCHANGED <<STATES, idVars, callVars, start_year, end_year, year_index,
                   request_fips, year_frame, result, calls, groups>>

\* return pd.concat(fips_frames)
Return ==
    /\ pc = "outer"
    /\ fips_index >= Len(fips_codes)
    /\ result' = concat(fips_frames)
    /\ pc' = IF result'.kind = "Raise" THEN "raised" ELSE "done"
    /\ UNCHANGED <<STATES, idVars, callVars, start_year, end_year, fips_index,
                   year_index, request_fips, year_frame, fips_frames, calls,
                   groups>>

Next == BeginGroup \/ YearStep \/ EndGroup \/ Return

Spec == Init /\ [][Next]_vars

-----------------------------------------------------------------------------
(* Properties of the chunking *)

CeilDiv(a, b) == (a + b - 1) \div b

RECURSIVE Flatten(_)
Flatten(seqs) == IF Len(seqs) = 0 THEN <<>> ELSE Head(seqs) \o Flatten(Tail(seqs))

\* the outer loop has made its last pass
GroupsFormed == fips_index >= Len(fips_codes)

\* C1: once the outer loop has finished, the region-groups number
\* ceil(n/m), each has at most m regions, and put end to end they are the
\* reference list: every region once, none missing
C1_Chunking ==
    GroupsFormed =>
        /\ Len(groups) = CeilDiv(Len(fips_codes), fips_interval)
        /\ \A g \in DOMAIN groups : Len(groups[g]) <= fips_interval
        /\ Flatten(groups) = fips_codes

\* the year windows of the range [start_year, end_year): the k-th starts k-1
\* whole intervals after start_year and ends before the next one or at
\* end_year - 1
WindowCount == CeilDiv(end_year - start_year, year_interval)
WindowLo(k) == start_year + (k - 1) * year_interval
WindowHi(k) == Min(start_year + k * year_interval - 1, end_year - 1)

\* the calls of group g that asked for exactly that group and the k-th window
CallsFor(g, k) ==
    {i \in DOMAIN calls :
        /\ calls[i].group = g
        /\ calls[i].data = RequestData(groups[g], WindowLo(k), WindowHi(k))}

\* C2: when the run has returned, every (region-group, year-window) pair
\* has exactly one call, asking for that group's series and that window's
\* years, and there are no other calls: groups times windows in all
C2_OneCallPerPair ==
    pc = "done" =>
        /\ \A g \in DOMAIN groups : \A k \in 1..WindowCount :
              Cardinality(CallsFor(g, k)) = 1
        /\ Len(calls) = Len(groups) * WindowCount

\* the calls made for group g, in order
CallsOfGroup(g) ==
    LET OfGroup(c) == c.group = g
    IN  SelectSeq(calls, OfGroup)

YearsOf(c) == c.request.start_year .. c.request.end_year

\* C3: for every region-group whose year loop has finished, with
\* start_year < end_year: the windows asked for are consecutive and do not
\* overlap, each spans at most year_interval years, and together they are
\* exactly the years start_year .. end_year - 1
C3_YearWindows ==
    \A g \in DOMAIN fips_frames :
        start_year < end_year =>
            LET ws == CallsOfGroup(g)
            IN  /\ \A k \in DOMAIN ws :
                      /\ ws[k].request.start_year <= ws[k].request.end_year
                      /\ Cardinality(YearsOf(ws[k])) <= year_interval
                      /\ ws[k].data.startyear = IntToStr(ws[k].request.start_year)
                      /\ ws[k].data.endyear = IntToStr(ws[k].request.end_year)
                /\ \A k \in 1..(Len(ws) - 1) :
                      ws[k + 1].request.start_year = ws[k].request.end_year + 1
                /\ UNION {YearsOf(ws[k]) : k \in DOMAIN ws}
                      = start_year .. (end_year - 1)

\* the (startyear, endyear) pairs sent so far, in order
WindowsSent == [i \in DOMAIN calls |-> <<calls[i].data.startyear, calls[i].data.endyear>>]

IsPrefix(a, b) == Len(a) <= Len(b) /\ a = SubSeq(b, 1, Len(a))

\* the run of main(): start_year=1991, end_year=2018
MainRun == start_year = 1991 /\ end_year = 2018

\* C4 as amended: for 1991..2018 the windows sent are 1991-2010 and then
\* 2011-2017, both sent once the first year loop has finished, and no others
C4_Windows ==
    MainRun =>
        LET expected == << <<"1991", "2010">>, <<"2011", "2017">> >>
        IN  /\ IsPrefix(WindowsSent, expected)
            /\ Len(fips_frames) >= 1 => WindowsSent = expected

\* C4 as stated: the windows sent are 1991-2009 and then 2010-2017
C4_WindowsAsStated ==
    MainRun =>
        LET expected == << <<"1991", "2009">>, <<"2010", "2017">> >>
        IN  /\ IsPrefix(WindowsSent, expected)
            /\ Len(fips_frames) >= 1 => WindowsSent = expected

C4_Witness == MainRun /\ pc = "done" /\ Len(calls) = 2

-----------------------------------------------------------------------------
(* Properties of the merge *)

\* the column an observation belongs in: its year, a dash, and its period
\* without the one-letter prefix
PeriodKey(o) == o.year \o "-" \o SubSeq(o.period, 2, Len(o.period))

HasSeries(json_data) == "series" \in DOMAIN json_data.Results

\* C5: a call that returns no series data (the chunk is None) does not end
\* the run with an exception, and leaves the table of the region-group as it
\* was
C5_AbsentMergeIsNoOp ==
    [][(pc = "inner" /\ calls' # calls /\ year_chunk' = None)
          => (pc' # "raised" /\ year_frame' = year_frame)]_vars

\* frame has a row labelled sid whose cell in the column of observation o
\* is o's value
HoldsObservation(frame, sid, o) ==
    /\ IsFrame(frame)
    /\ InSeq(sid, frame.index)
    /\ \E j \in DOMAIN frame.columns :
          /\ frame.columns[j] = PeriodKey(o)
          /\ frame.data[PosIn(sid, frame.index)][j] = o.value

\* C6: for every region-group whose year loop has finished, every
\* observation any of its calls returned is in the group's merged table, in
\* the row of its series, and in the final table once the run has returned
C6_NoRegionOmitted ==
    \A g \in DOMAIN fips_frames : \A i \in DOMAIN calls :
        (calls[i].group = g /\ HasSeries(calls[i].response)) =>
            \A k \in DOMAIN calls[i].response.Results.series :
                LET s == calls[i].response.Results.series[k]
                IN  \A n \in DOMAIN s.data :
                        /\ HoldsObservation(fips_frames[g], s.seriesID, s.data[n])
                        /\ pc = "done" =>
                              HoldsObservation(result, s.seriesID, s.data[n])

NoDuplicates(seq) == \A i, j \in DOMAIN seq : seq[i] = seq[j] => i = j

Elements(seq) == {seq[i] : i \in DOMAIN seq}

\* the period columns of the observations of one response
PeriodsOfResponse(json_data) ==
    IF ~HasSeries(json_data) THEN {}
    ELSE UNION {{PeriodKey(s.data[n]) : n \in DOMAIN s.data} :
                s \in Elements(json_data.Results.series)}

\* the period columns the calls of group g have returned so far
PeriodsReturned(g) ==
    UNION {PeriodsOfResponse(calls[i].response) :
           i \in {c \in DOMAIN calls : calls[c].group = g}}

\* C7: the table merged so far for the current region-group has the columns
\* state and fips and one column per period returned, each exactly once
C7_MergedColumns ==
    (pc = "inner" /\ IsFrame(year_frame) /\ Len(year_frame.columns) > 0) =>
        /\ NoDuplicates(year_frame.columns)
        /\ Elements(year_frame.columns)
              = {"state", "fips"} \cup PeriodsReturned(Len(groups))

-----------------------------------------------------------------------------
(* Properties of the identifier mapping *)

TwoDigitCodes == {a \o b : a \in Digits, b \in Digits}

\* the identifiers of the fixed format: the prefix, two digits, the suffix,
\* and nothing else
WellFormedIds == {SeriesPrefix \o c \o SeriesSuffix : c \in TwoDigitCodes}

\* C8: id_to_fips undoes fips_to_id on every 2-digit code, and returns None
\* for every string that is not of the fixed format
C8_InverseAndReject ==
    /\ (called = "round_trip" /\ arg \in TwoDigitCodes) => ret = Str(arg)
    /\ (called = "id_to_fips" /\ arg \notin WellFormedIds) => ret = None

-----------------------------------------------------------------------------
(* Properties of download_employment_data *)

KnownIds == {SeriesPrefix \o STATES[i].fips \o SeriesSuffix : i \in DOMAIN STATES}

IsWellFormed(s) == s.seriesID \in WellFormedIds

\* C9: a response with a malformed series identifier, beside a series of a
\* known region with data, yields what the response without the malformed
\* series yields: the rows of the other series, and no exception
C9_MalformedSkipped ==
    (/\ pc = "returned"
     /\ HasSeries(response)
     /\ \E s \in Elements(response.Results.series) : ~IsWellFormed(s)
     /\ \E s \in Elements(response.Results.series) :
           IsWellFormed(s) /\ Len(s.data) > 0
     /\ \A s \in Elements(response.Results.series) :
           IsWellFormed(s) => s.seriesID \in KnownIds)
    => year_chunk = download_employment_data(
                        WithSeries(SelectSeq(response.Results.series, IsWellFormed)))

CodeOf(series_id) == SubSeq(series_id, Len(SeriesPrefix) + 1, Len(SeriesPrefix) + 2)

AbbrOf(code) == STATES[CHOOSE i \in DOMAIN STATES : STATES[i].fips = code].abbr

CellAt(frame, label, column) ==
    frame.data[PosIn(label, frame.index)][PosIn(column, frame.columns)]

=============================================================================
